---- MODULE Spec2Model ----
(***************************************************************************)
(* Model of the reader pipeline of auditok/util.py:                        *)
(*   source -> _Recorder -> _Limiter -> _FixedSizeAudioReader /            *)
(*                                      _OverlapAudioReader -> AudioReader *)
(* Blocks are sequences of bytes; the bytes of the original stream are the *)
(* numbers 1, 2, 3, ... so that every byte of the stream is distinct and a *)
(* window can be compared byte for byte with a slice of the stream.        *)
(***************************************************************************)
EXTENDS Integers, Sequences, FiniteSets, TLC

\* ------------------------------------------------------------------ bounds
MaxBlockQ == 3      \* block_dur ranges over 1/4 s .. MaxBlockQ/4 s
MaxReadQ == 3       \* max_read ranges over 0 s .. MaxReadQ/4 s
MaxLen == 5         \* samples held by the original source: 0 .. MaxLen
MaxReads == 5       \* read() calls recorded per pass, blocks held in the cache
MaxRewinds == 2     \* rewind() calls told apart (the count saturates)
MaxChannels == 4    \* channels of the blocks given to a channel selector: 1 .. MaxChannels
MaxFrames == 2      \* frames of the blocks given to a channel selector: 0 .. MaxFrames
MaxStr == 2         \* characters of the strings given to a StringDataSource: 0 .. MaxStr

Rates == {2, 4}     \* sampling rates (samples per second)
Formats == {[sw |-> 1, ch |-> 1], [sw |-> 2, ch |-> 1]}

\* ------------------------------------------------------------ python values
Min(a, b) == IF a < b THEN a ELSE b

None == [t |-> "None", v |-> <<>>]
Bytes(b) == [t |-> "bytes", v |-> b]
Raise(e) == [t |-> e, v |-> <<>>]
IsRaise(r) == r.t \notin {"None", "bytes"}

\* b[from:to] on a bytes object, 0 <= from, 0 <= to
PySlice(b, from, to) == SubSeq(b, from + 1, Min(to, Len(b)))

\* b"".join(blocks)
RECURSIVE Join(_)
Join(blocks) == IF blocks = <<>> THEN <<>> ELSE Head(blocks) \o Join(Tail(blocks))

\* int(dur * sr) for a duration of q quarter seconds: int() drops the
\* fraction, towards zero
IntOfDur(q, sr) == IF q >= 0 THEN (q * sr) \div 4 ELSE -(((-q) * sr) \div 4)

\* round(n / d) as Python 3 rounds: half to even (n >= 0, d > 0)
PyRound(n, d) ==
  LET q == n \div d
      r == n % d
  IN  IF 2 * r < d THEN q
      ELSE IF 2 * r > d THEN q + 1
      ELSE IF q % 2 = 0 THEN q ELSE q + 1

VARIABLES
  conf,             \* what construction fixed: stream parameters, sizes, layers
  src_open,         \* original source: is_open()
  src_pos,          \* original source: bytes already handed out
  src_ready,        \* original source: data is available now (live sources stall)
  src_read,         \* the last facade call called read() on the original source
  src_rewound,      \* the last call called rewind() on the original source
  src_short,        \* original source: the next read() returns one sample at most
  cache,            \* _Recorder._cache
  data,             \* _Recorder._data
  read_from_cache,  \* _Recorder._read_from_cache
  buf_open,         \* replay BufferAudioSource: is_open()
  buf_pos,          \* replay BufferAudioSource: position in bytes
  read_samples,     \* _Limiter._read_samples
  blocks,           \* _OverlapAudioReader._blocks: where the generator is suspended
  gen_cache,        \* the generator's local `cache` (carry buffer)
  ret,              \* the last facade call and what it returned or raised
  rewinds,          \* rewind() calls so far, counted up to MaxRewinds
  clean,            \* this pass: source open and full reads, nothing raised
  wins,             \* results of the read() calls of this pass (while clean)
  first,            \* results of the read() calls before the first rewind
  first_clean,      \* the pass before the first rewind was clean
  eos_first,        \* this pass: the first wrapped read returned end-of-stream
  str_data,         \* StringDataSource._data
  str_current       \* StringDataSource._current

pipe == <<src_open, src_pos, src_ready, src_read, src_rewound, cache, data, read_from_cache,
          buf_open, buf_pos, read_samples, blocks, gen_cache>>
hist == <<rewinds, clean, wins, first, first_clean, eos_first>>
strsrc == <<str_data, str_current>>
vars == <<conf, pipe, ret, hist, strsrc, src_short>>

\* ------------------------------------------------------------- derived
Bps == conf.sw * conf.ch                          \* bytes per sample
Stream == [i \in 1..(conf.length * Bps) |-> i]    \* the original source's bytes

\* the mutable fields of the pipeline as one record, at the start of a facade call
Cur ==
  [src_open |-> src_open, src_pos |-> src_pos, src_ready |-> src_ready,
   src_read |-> FALSE, src_rewound |-> FALSE, cache |-> cache, data |-> data,
   read_from_cache |-> read_from_cache, buf_open |-> buf_open, buf_pos |-> buf_pos,
   read_samples |-> read_samples, blocks |-> blocks, gen_cache |-> gen_cache]

Install(s) ==
  /\ src_open' = s.src_open
  /\ src_pos' = s.src_pos
  /\ src_ready' = s.src_ready
  /\ src_read' = s.src_read
  /\ src_rewound' = s.src_rewound
  /\ cache' = s.cache
  /\ data' = s.data
  /\ read_from_cache' = s.read_from_cache
  /\ buf_open' = s.buf_open
  /\ buf_pos' = s.buf_pos
  /\ read_samples' = s.read_samples
  /\ blocks' = s.blocks
  /\ gen_cache' = s.gen_cache

\* what a call gives back: the pipeline's fields after it and its result
Out(s, r) == [s |-> s, ret |-> r]

\* -------------------------------------------------- the wrapped sources
\* a buffer source hands out the slice d it cut at position pos
BufferTake(pos, d) ==
  IF d # <<>> THEN [ret |-> Bytes(d), pos |-> pos + Len(d)]
  ELSE [ret |-> None, pos |-> pos]

\* read(size) of a buffer source over `buf`: the next size samples, a short
\* block at the end, end-of-stream when nothing is left; an error when closed
BufferRead(buf, isopen, pos, size) ==
  IF ~isopen THEN [ret |-> Raise("AudioIOError"), pos |-> pos]
  ELSE BufferTake(pos, PySlice(buf, pos, pos + size * Bps))

SourceAdvance(s, o) == Out([s EXCEPT !.src_pos = o.pos], o.ret)

\* a source may hand out less than it is asked for: one sample when it is short
Granted(size) == IF src_short THEN Min(size, 1) ELSE size

\* read(size) of the original source; a live source that has no data right
\* now returns an empty block
SourceRead(s, size) ==
  IF s.src_open /\ ~s.src_ready
  THEN Out([s EXCEPT !.src_read = TRUE], Bytes(<<>>))
  ELSE SourceAdvance([s EXCEPT !.src_read = TRUE],
                     BufferRead(Stream, s.src_open, s.src_pos, Granted(size)))

ReplayAdvance(s, o) == Out([s EXCEPT !.buf_pos = o.pos], o.ret)

\* read(size) of the BufferAudioSource the recorder builds over its data
ReplayRead(s, size) ==
  ReplayAdvance(s, BufferRead(s.data.v, s.buf_open, s.buf_pos, size))

\* ------------------------------------------------------------ _Recorder
\* faulty variant: the block is put in front of the cache
CacheBlockFront(o) ==
  IF o.ret.t = "bytes"
  THEN Out([o.s EXCEPT !.cache = <<o.ret.v>> \o @], o.ret)
  ELSE o

\* if block is not None: self._cache.append(block)
CacheBlock(o) ==
  IF o.ret.t = "bytes"
  THEN Out([o.s EXCEPT !.cache = Append(@, o.ret.v)], o.ret)
  ELSE o

\* faulty variant: the block read is handed on without being cached
ReadAndCacheDropped(s, size) == SourceRead(s, size)

ReadAndCache(s, size) == CacheBlock(SourceRead(s, size))

\* faulty variant: _read_block is not switched to the replay source
RecorderReadLive(s, size) == ReadAndCache(s, size)

RecorderRead(s, size) ==
  IF s.read_from_cache THEN ReplayRead(s, size) ELSE ReadAndCache(s, size)

\* faulty variant: the first rewind does not open the replay source
RecorderRewindUnopened(s) ==
  IF s.read_from_cache
  THEN [s EXCEPT !.buf_pos = 0]
  ELSE [s EXCEPT !.data = Bytes(Join(s.cache)),
                 !.cache = <<>>,
                 !.buf_pos = 0,
                 !.read_from_cache = TRUE]

\* in replay the cache is None; it is modelled as the empty list
RecorderRewind(s) ==
  IF s.read_from_cache
  THEN [s EXCEPT !.buf_pos = 0]
  ELSE [s EXCEPT !.data = Bytes(Join(s.cache)),
                 !.cache = <<>>,
                 !.buf_pos = 0,
                 !.buf_open = TRUE,
                 !.read_from_cache = TRUE]

\* faulty variant: before the first rewind `data` joins what the cache holds
RecorderDataFromCache(s) ==
  IF s.data = None THEN Bytes(Join(s.cache)) ELSE s.data

RecorderData(s) ==
  IF s.data = None THEN Raise("RuntimeError") ELSE s.data

\* rewind() of an original source that cannot rewind: it fails
SourceRewind(s) == Out([s EXCEPT !.src_rewound = TRUE], Raise("AudioIOError"))

\* ------------------------------------------- _AudioReadingProxy delegation
\* `if self.rewindable:` tests the method object itself, whatever calling it
\* would return: a bound method is true
ProxyRewindable == TRUE

\* rewind() of a proxy over an original source that cannot rewind. The
\* rewind() of _Limiter and of _OverlapAudioReader start with this call and
\* do not reach their own resets when it raises.
ProxyRewind(s) ==
  IF ProxyRewindable THEN SourceRewind(s)
  ELSE Out(s, Raise("AudioIOError"))

\* is_open(), open(), close() reach the source the innermost proxy holds
IsOpen(s) == IF s.read_from_cache THEN s.buf_open ELSE s.src_open

ProxyOpen(s) ==
  IF s.read_from_cache THEN [s EXCEPT !.buf_open = TRUE]
  ELSE [s EXCEPT !.src_open = TRUE]

\* faulty variant: close() still reaches the original source in replay
ProxyCloseOriginal(s) == [s EXCEPT !.src_open = FALSE]

ProxyClose(s) ==
  IF s.read_from_cache THEN [s EXCEPT !.buf_open = FALSE]
  ELSE [s EXCEPT !.src_open = FALSE]

\* what the limiter, or the window reader when there is no limiter, wraps
InnerRead(s, size) ==
  IF conf.record THEN RecorderRead(s, size) ELSE SourceRead(s, size)

\* ------------------------------------------------------------- _Limiter
\* faulty variant: the consumption counter is not updated
CountSamplesNever(o) == o

\* self._read_samples += len(block) // self._bytes_per_sample
\* faulty variant: the counter is advanced by the bytes of the block
CountBytes(o) ==
  IF o.ret.t = "bytes"
  THEN Out([o.s EXCEPT !.read_samples = @ + Len(o.ret.v)], o.ret)
  ELSE o

CountSamples(o) ==
  IF o.ret.t = "bytes"
  THEN Out([o.s EXCEPT !.read_samples = @ + (Len(o.ret.v) \div Bps)], o.ret)
  ELSE o

\* faulty variant: the wrapped source is asked even for no sample
LimiterTakeAlways(s, size) == CountSamples(InnerRead(s, size))

LimiterTake(s, size) ==
  IF size <= 0 THEN Out(s, None) ELSE CountSamples(InnerRead(s, size))

\* faulty variant: the request is not capped by what is left of the limit
LimiterReadUncapped(s, size) == LimiterTake(s, size)

LimiterRead(s, size) ==
  LimiterTake(s, Min(conf.max_samples - s.read_samples, size))

LimiterRewind(s) == [RecorderRewind(s) EXCEPT !.read_samples = 0]

Truncated(d) ==
  IF d.t = "bytes" THEN Bytes(PySlice(d.v, 0, conf.max_samples * Bps)) ELSE d

LimiterData(s) == Truncated(RecorderData(s))

\* what the window reader wraps
WrappedRead(s, size) ==
  IF conf.limited THEN LimiterRead(s, size) ELSE InnerRead(s, size)

WrappedRewind(s) ==
  IF conf.limited THEN LimiterRewind(s) ELSE RecorderRewind(s)

WrappedData(s) ==
  IF conf.limited THEN LimiterData(s) ELSE RecorderData(s)

\* -------------------------------------------------- _FixedSizeAudioReader
\* faulty variant: the block size is taken for a number of bytes
FixedReadBytes(s) == WrappedRead(s, conf.block_size * Bps)

FixedRead(s) == WrappedRead(s, conf.block_size)

\* ---------------------------------------------------- _OverlapAudioReader
HopSizeBytes == conf.hop_size * conf.sw * conf.ch

\* faulty variant: the carry buffer is cut at the hop size in samples
TrailingInSamples(block) == PySlice(block, conf.hop_size, Len(block))

\* cache = block[_hop_size_bytes:]
\* faulty variant: the whole window is carried over
TrailingWhole(block) == block

Trailing(block) == PySlice(block, HopSizeBytes, Len(block))

\* the generator after its first wrapped read gave o
FirstBlock(o) ==
  IF IsRaise(o.ret) THEN Out([o.s EXCEPT !.blocks = "finished"], o.ret)
  ELSE IF o.ret = None THEN Out([o.s EXCEPT !.blocks = "firstEOS"], None)
  ELSE Out([o.s EXCEPT !.blocks = "running", !.gen_cache = Trailing(o.ret.v)], o.ret)

\* block = cache + block; cache = block[_hop_size_bytes:]; yield block
YieldBlock(s, block) ==
  Out([s EXCEPT !.blocks = "running", !.gen_cache = Trailing(block)], Bytes(block))

\* the generator after a wrapped read of a hop gave o
NextBlock(carry, o) ==
  IF IsRaise(o.ret) THEN Out([o.s EXCEPT !.blocks = "finished"], o.ret)
  ELSE IF o.ret.t = "bytes" /\ o.ret.v # <<>> THEN YieldBlock(o.s, carry \o o.ret.v)
  ELSE Out([o.s EXCEPT !.blocks = "exhausted"], None)

\* faulty variant: the generator starts reading whether the source is open or not
IterBlocksUnchecked(s) ==
  CASE s.blocks = "notStarted" ->
         FirstBlock(WrappedRead(s, conf.block_size))
    [] s.blocks = "firstEOS" ->
         \* block is None: block[_hop_size_bytes:] raises TypeError
         Out([s EXCEPT !.blocks = "finished"], Raise("TypeError"))
    [] s.blocks \in {"running", "exhausted"} ->
         NextBlock(s.gen_cache, WrappedRead(s, conf.hop_size))
    [] OTHER ->
         Out(s, None)

\* one next() of _iter_blocks_with_overlap, by the place it is suspended at:
\*   notStarted  not yet run, or suspended at `yield AudioIOError`
\*   firstEOS    suspended at the `yield None` that follows the first read
\*   running     suspended at a `yield block`
\*   exhausted   suspended at the `yield None` of the loop
\*   finished    ended by an exception: next() raises StopIteration
IterBlocksWithOverlap(s) ==
  CASE s.blocks = "notStarted" ->
         IF ~IsOpen(s) THEN Out(s, Raise("AudioIOError"))
         ELSE FirstBlock(WrappedRead(s, conf.block_size))
    [] s.blocks = "firstEOS" ->
         \* block is None: block[_hop_size_bytes:] raises TypeError
         Out([s EXCEPT !.blocks = "finished"], Raise("TypeError"))
    [] s.blocks \in {"running", "exhausted"} ->
         NextBlock(s.gen_cache, WrappedRead(s, conf.hop_size))
    [] OTHER ->
         Out(s, None)

OverlapRead(s) == IterBlocksWithOverlap(s)

\* faulty variant: rewind keeps the running generator and its carry buffer
OverlapRewindKeepsBlocks(s) == WrappedRewind(s)

OverlapRewind(s) == [WrappedRewind(s) EXCEPT !.blocks = "notStarted", !.gen_cache = <<>>]

\* ---------------------------------------------------------- AudioReader
FacadeRead(s) == IF conf.overlap THEN OverlapRead(s) ELSE FixedRead(s)

\* faulty variant: `data` is handed down whether recording was asked for or not
FacadeDataUnguarded(s) == WrappedData(s)

FacadeRewind(s) ==
  IF ~conf.record THEN Out(s, Raise("AttributeError"))
  ELSE Out(IF conf.overlap THEN OverlapRewind(s) ELSE WrappedRewind(s), None)

FacadeData(s) ==
  IF ~conf.record THEN Raise("AttributeError") ELSE WrappedData(s)

\* ------------------------------------------------------------ construction
\* AudioReader(input, block_dur, hop_dur, record, max_read) for the arguments
\* the constructors accept; durations are multiples of a quarter second.
\* hq and mq are -1 for an argument left at None.
Configure(fmt, sr, bq, hq, mq, rec, len, live) ==
  [sw |-> fmt.sw, ch |-> fmt.ch,
   block_size |-> IntOfDur(bq, sr),
   overlap |-> hq >= 0,
   hop_size |-> IF hq >= 0 THEN IntOfDur(hq, sr) ELSE IntOfDur(bq, sr),
   limited |-> mq >= 0,
   max_samples |-> IF mq >= 0 THEN PyRound(mq * sr, 4) ELSE 0,
   record |-> rec, length |-> len, live |-> live]

\* the pipelines construction can give over sources of the given kinds
Pipelines(formats, lives) ==
  { c \in UNION { { Configure(fmt, sr, bq, hq, mq, rec, len, live) :
                      hq \in -1..(bq - 1), mq \in -1..MaxReadQ, rec \in BOOLEAN,
                      len \in 0..MaxLen, live \in lives } :
                    fmt \in formats, sr \in Rates, bq \in 1..MaxBlockQ } :
      c.block_size # 0 }

\* the objects right after construction
Constructed ==
  /\ src_open = FALSE
  /\ src_pos = 0
  /\ src_ready = TRUE
  /\ src_read = FALSE
  /\ src_rewound = FALSE
  /\ src_short = FALSE
  /\ cache = <<>>
  /\ data = None
  /\ read_from_cache = FALSE
  /\ buf_open = FALSE
  /\ buf_pos = 0
  /\ read_samples = 0
  /\ blocks = "notStarted"
  /\ gen_cache = <<>>
  /\ ret = [op |-> "init", r |-> None]
  /\ rewinds = 0
  /\ clean = TRUE
  /\ wins = <<>>
  /\ first = <<>>
  /\ first_clean = FALSE
  /\ eos_first = FALSE
  /\ str_data = <<>>
  /\ str_current = 0

\* ------------------------------------------------ make_channel_selector
\* sample widths a caller may pass
Widths == 0..4

\* values of `selected`: an int, one of the mode strings, None, or anything else
Index(i) == [kind |-> "int", i |-> i]
Mode(m) == [kind |-> m, i |-> 0]
SelectedValues ==
  { Index(i) : i \in (-(MaxChannels + 1))..MaxChannels }
    \cup { Mode(m) : m \in {"mix", "avg", "average", "any", "None", "other"} }

\* signal.FORMAT.get(sample_width): the width's format, 0 for None
SignalFormat(sw) == IF sw \in {1, 2, 4} THEN sw ELSE 0

\* what make_channel_selector returns: the function and the arguments bound to it
Selector(kind, i) == [t |-> "selector", v |-> <<>>, kind |-> kind, selected |-> i]

\* faulty variant: a negative index is moved one channel short
NormaliseShort(i, ch) == IF i < 0 THEN i + ch - 1 ELSE i

\* `if selected < 0: selected += channels`
Normalise(i, ch) == IF i < 0 THEN i + ch ELSE i

\* faulty variant: the index is bound without the range test
SingleChannelUnchecked(ch, i) == Selector("single", i)

SingleChannel(ch, i) ==
  IF i < 0 \/ i >= ch THEN Raise("ValueError") ELSE Selector("single", i)

\* faulty variant: `selected` is looked at before the channel count
MakeChannelSelectorLate(sw, ch, sel) ==
  IF SignalFormat(sw) = 0 THEN Raise("ValueError")
  ELSE IF sel.kind = "int" THEN SingleChannel(ch, Normalise(sel.i, ch))
  ELSE IF ch = 1 THEN Selector("identity", 0)
  ELSE IF sel.kind \in {"mix", "avg", "average"}
       THEN IF ch = 2 THEN Selector("average_stereo", 0) ELSE Selector("average", 0)
  ELSE IF sel.kind \in {"None", "any"} THEN Selector("separate", 0)
  ELSE Raise("ValueError")

MakeChannelSelector(sw, ch, sel) ==
  IF SignalFormat(sw) = 0 THEN Raise("ValueError")
  ELSE IF ch = 1 THEN Selector("identity", 0)
  ELSE IF sel.kind = "int" THEN SingleChannel(ch, Normalise(sel.i, ch))
  ELSE IF sel.kind \in {"mix", "avg", "average"}
       THEN IF ch = 2 THEN Selector("average_stereo", 0) ELSE Selector("average", 0)
  ELSE IF sel.kind \in {"None", "any"} THEN Selector("separate", 0)
  ELSE Raise("ValueError")

\* sample j (from 0) of a block of sw-byte samples
Sample(block, sw, j) == SubSeq(block, j * sw + 1, (j + 1) * sw)

\* samples[selected::channels] of the block's samples
ExtractSingleChannel(block, sw, ch, selected) ==
  LET n == Len(block) \div sw
      count == IF n > selected THEN (n - selected + ch - 1) \div ch ELSE 0
  IN  [m \in 1..count |-> Sample(block, sw, selected + (m - 1) * ch)]

\* the channels of the block, one after the other
SeparateChannels(block, sw, ch) ==
  [c \in 1..ch |-> ExtractSingleChannel(block, sw, ch, c - 1)]

\* the number a sample's bytes stand for (low byte first), and back
RECURSIVE SampleValue(_)
SampleValue(sample) ==
  IF sample = <<>> THEN 0 ELSE Head(sample) + 256 * SampleValue(Tail(sample))

RECURSIVE Power256(_)
Power256(k) == IF k = 0 THEN 1 ELSE 256 * Power256(k - 1)

Encode(value, sw) == [k \in 1..sw |-> (value \div Power256(k - 1)) % 256]

\* the sum of frame f (from 0) over its channels c, c + 1, ...
RECURSIVE FrameSum(_, _, _, _, _)
FrameSum(block, sw, ch, f, c) ==
  IF c >= ch THEN 0
  ELSE SampleValue(Sample(block, sw, f * ch + c)) + FrameSum(block, sw, ch, f, c + 1)

\* the mean of the channels, frame by frame, at the block's sample width
ComputeAverageChannel(block, sw, ch) ==
  [m \in 1..((Len(block) \div sw) \div ch) |->
     Encode(FrameSum(block, sw, ch, m - 1, 0) \div ch, sw)]

\* selector(block)
Select(selector, block, sw, ch) ==
  CASE selector.kind = "identity" -> block
    [] selector.kind = "single" -> ExtractSingleChannel(block, sw, ch, selector.selected)
    [] selector.kind = "separate" -> SeparateChannels(block, sw, ch)
    [] selector.kind \in {"average", "average_stereo"} ->
         ComputeAverageChannel(block, sw, ch)

\* the arguments of one use of a selector: width, channels, `selected`, and
\* the whole frames of the block it is given
SelectorArgs ==
  [sw : Widths, ch : 1..MaxChannels, selected : SelectedValues, frames : 0..MaxFrames]

\* the block given to the selector: its bytes are 1, 2, 3, ...
Block == [i \in 1..(conf.frames * conf.ch * conf.sw) |-> i]

InitSelector ==
  /\ conf \in SelectorArgs
  /\ Constructed

\* ------------------------------------------------ AudioEnergyValidator
\* the samples of a whole block, as the array the energy functions work on
AllSamples(block, sw) == [j \in 1..(Len(block) \div sw) |-> Sample(block, sw, j - 1)]

RECURSIVE SumOfSquares(_)
SumOfSquares(samples) ==
  IF samples = <<>> THEN 0
  ELSE SampleValue(Head(samples)) * SampleValue(Head(samples)) + SumOfSquares(Tail(samples))

\* the energy score of one channel: its mean square (the logarithm the
\* library takes of it keeps the order of the scores)
CalculateEnergySingleChannel(samples) == SumOfSquares(samples) \div Len(samples)

\* the energy score of separated channels c, c + 1, ...: the highest of them
RECURSIVE EnergyFrom(_, _)
EnergyFrom(channels, c) ==
  IF c = Len(channels) THEN CalculateEnergySingleChannel(channels[c])
  ELSE IF CalculateEnergySingleChannel(channels[c]) >= EnergyFrom(channels, c + 1)
       THEN CalculateEnergySingleChannel(channels[c])
       ELSE EnergyFrom(channels, c + 1)

CalculateEnergyMultichannel(channels) == EnergyFrom(channels, 1)

\* what AudioEnergyValidator.__init__ leaves in the object
Validator(selector, fn) ==
  [t |-> "validator", v |-> <<>>, selector |-> selector, energy_fn |-> fn]

EnergyFn(ch, use_channel) ==
  IF ch = 1 \/ use_channel.kind \notin {"None", "any"} THEN "single" ELSE "multichannel"

\* the constructor has the selector made first: its ValueError gets through
ValidatorWith(selector, ch, use_channel) ==
  IF selector.t = "ValueError" THEN selector
  ELSE Validator(selector, EnergyFn(ch, use_channel))

ValidatorInit(sw, ch, use_channel) ==
  ValidatorWith(MakeChannelSelector(sw, ch, use_channel), ch, use_channel)

\* self._energy_fn(selected, sample_width): bytes are grouped into samples
\* first, an array of samples is taken as it is
LogEnergy(validator, selected, sw) ==
  IF validator.energy_fn = "multichannel" THEN CalculateEnergyMultichannel(selected)
  ELSE IF validator.selector.kind = "identity"
       THEN CalculateEnergySingleChannel(AllSamples(selected, sw))
  ELSE CalculateEnergySingleChannel(selected)

\* faulty variant: a score equal to the threshold is not valid
IsValidAbove(validator, block, sw, ch, threshold) ==
  LogEnergy(validator, Select(validator.selector, block, sw, ch), sw) > threshold

IsValid(validator, block, sw, ch, threshold) ==
  LogEnergy(validator, Select(validator.selector, block, sw, ch), sw) >= threshold

\* the block a validator is given: whole frames, at least one, bytes 1, 2, 3, ...
BlockOf(a) == [i \in 1..(a.frames * a.ch * a.sw) |-> i]

\* the scores the block's channels, their mean and the block taken as one
\* channel have
ScoresOf(a) ==
  { CalculateEnergySingleChannel(ExtractSingleChannel(BlockOf(a), a.sw, a.ch, c)) :
      c \in 0..(a.ch - 1) }
    \cup { CalculateEnergySingleChannel(ComputeAverageChannel(BlockOf(a), a.sw, a.ch)),
           CalculateEnergySingleChannel(AllSamples(BlockOf(a), a.sw)) }

\* thresholds at and next to those scores
ThresholdsOf(a) ==
  IF a.sw = 0 THEN {0} ELSE { e + d : e \in ScoresOf(a), d \in -1..1 }

WithThreshold(a, th) ==
  [sw |-> a.sw, ch |-> a.ch, selected |-> a.selected, frames |-> a.frames,
   threshold |-> th]

\* sample widths 1 and 2, and 0 for a width that is refused
ValidatorArgs ==
  UNION { { WithThreshold(a, th) : th \in ThresholdsOf(a) } :
            a \in [sw : 0..2, ch : 1..MaxChannels, selected : SelectedValues,
                    frames : 1..MaxFrames] }

InitValidator ==
  /\ conf \in ValidatorArgs
  /\ Constructed

\* ------------------------------------------------ StringDataSource
Chars == {"a", "b"}

\* the str objects of up to MaxStr characters
Strings == UNION { [1..k -> Chars] : k \in 0..MaxStr }

\* what a caller may give as data: a str, or an object of another type
Str(s) == [kind |-> "str", s |-> s]
DataValues == { Str(s) : s \in Strings } \cup { [kind |-> "other", s |-> <<>>] }

\* a character read() returns
Char(c) == [t |-> "str", v |-> <<c>>]

\* faulty variant: the character before the one due is returned
StringReadBehind(d, cur) ==
  IF cur >= Len(d) THEN [ret |-> None, current |-> cur]
  ELSE [ret |-> Char(d[IF cur = 0 THEN 1 ELSE cur]), current |-> cur + 1]

\* StringDataSource.read on data d at position cur
StringRead(d, cur) ==
  IF cur >= Len(d) THEN [ret |-> None, current |-> cur]
  ELSE [ret |-> Char(d[cur + 1]), current |-> cur + 1]

\* StringDataSource.set_data(x)
SetData(d, cur, x) ==
  IF x.kind # "str" THEN [ret |-> Raise("ValueError"), data |-> d, current |-> cur]
  ELSE [ret |-> None, data |-> x.s, current |-> 0]

\* StringDataSource(s), for a str s
InitString ==
  /\ conf \in { [data |-> s] : s \in Strings }
  /\ src_open = FALSE /\ src_pos = 0 /\ src_ready = TRUE /\ src_read = FALSE
  /\ src_rewound = FALSE /\ src_short = FALSE /\ cache = <<>> /\ data = None /\ read_from_cache = FALSE
  /\ buf_open = FALSE /\ buf_pos = 0 /\ read_samples = 0 /\ blocks = "notStarted"
  /\ gen_cache = <<>> /\ ret = [op |-> "init", r |-> None]
  /\ rewinds = 0 /\ clean = TRUE /\ wins = <<>> /\ first = <<>>
  /\ first_clean = FALSE /\ eos_first = FALSE
  /\ str_data = conf.data
  /\ str_current = 0

\* ------------------------------------------------ construction, argument by
\* argument: block_dur and hop_dur in quarter seconds, any sign
\* faulty variant: a block of no sample is let through
FixedInitUnchecked(bq, sr) ==
  IF bq <= 0 THEN Raise("ValueError") ELSE None

\* _FixedSizeAudioReader.__init__: None when it returns
FixedInit(bq, sr) ==
  IF bq <= 0 THEN Raise("ValueError")
  ELSE IF IntOfDur(bq, sr) = 0 THEN Raise("TooSamllBlockDuration")
  ELSE None

\* _OverlapAudioReader.__init__
OverlapInit(bq, hq, sr) ==
  IF hq >= bq THEN Raise("ValueError") ELSE FixedInit(bq, sr)

\* the window reader AudioReader.__init__ builds from arguments a
ReaderInit(a) ==
  IF a.has_hop THEN OverlapInit(a.bq, a.hq, a.sr) ELSE FixedInit(a.bq, a.sr)

\* the sizes a constructor that returned has set
Built(a) ==
  [a EXCEPT !.block_size = IntOfDur(a.bq, a.sr),
            !.hop_size = IntOfDur(IF a.has_hop THEN a.hq ELSE a.bq, a.sr)]

\* the arguments a caller can pass (hop_dur is None where has_hop is false)
CtorArgs ==
  { a \in [sr : Rates, bq : -1..MaxBlockQ, has_hop : BOOLEAN,
           hq : -1..(MaxBlockQ + 1), record : BOOLEAN,
           block_size : {0}, hop_size : {0}] : a.has_hop \/ a.hq = 0 }

InitCtor ==
  /\ conf \in CtorArgs
  /\ Constructed

\* sources that hand out what is asked for until they run out
Init ==
  /\ conf \in Pipelines(Formats, {FALSE})
  /\ Constructed

\* limited pipelines over a source that does not end: the limiter never asks
\* for a sample past max_samples, and the source holds more than that
InitEndless ==
  /\ conf \in { c \in Pipelines(Formats, {FALSE}) :
                  c.limited /\ c.length = MaxLen /\ c.max_samples < c.length }
  /\ Constructed

\* live sources, which at times have nothing to hand out
InitLive ==
  /\ conf \in Pipelines({[sw |-> 1, ch |-> 1]}, {TRUE})
  /\ Constructed

\* ---------------------------------------------------------------- actions
Open ==
  /\ UNCHANGED <<strsrc, src_short>>
  /\ Install(ProxyOpen(Cur))
  /\ ret' = [op |-> "open", r |-> None]
  /\ UNCHANGED <<conf, hist>>

Close ==
  /\ UNCHANGED <<strsrc, src_short>>
  /\ Install(ProxyClose(Cur))
  /\ ret' = [op |-> "close", r |-> None]
  /\ clean' = FALSE
  /\ wins' = <<>>
  /\ UNCHANGED <<conf, rewinds, first, first_clean, eos_first>>

\* a facade call gave o: the fields it left and what the caller sees
Returned(op, o) ==
  /\ Install(o.s)
  /\ ret' = [op |-> op, r |-> o.ret]

Read ==
  /\ UNCHANGED <<strsrc, src_short>>
  /\ Len(wins) < MaxReads
  /\ Len(cache) < MaxReads
  /\ Returned("read", FacadeRead(Cur))
  /\ clean' = (clean /\ ~IsRaise(ret'.r))
  /\ wins' = IF clean' THEN Append(wins, ret'.r) ELSE <<>>
  /\ eos_first' = (eos_first \/ (conf.overlap /\ blocks' = "firstEOS"))
  /\ UNCHANGED <<conf, rewinds, first, first_clean>>

Rewind ==
  /\ UNCHANGED <<strsrc, src_short>>
  /\ conf.record
  /\ Returned("rewind", FacadeRewind(Cur))
  /\ clean' = buf_open'
  /\ rewinds' = Min(rewinds + 1, MaxRewinds)
  /\ wins' = <<>>
  /\ first' = IF rewinds = 0 THEN wins ELSE first
  /\ first_clean' = IF rewinds = 0 THEN clean ELSE first_clean
  /\ eos_first' = FALSE
  /\ UNCHANGED conf

RewindNotRecording ==
  /\ UNCHANGED <<strsrc, src_short>>
  /\ ~conf.record
  /\ Returned("rewind", FacadeRewind(Cur))
  /\ UNCHANGED <<conf, hist>>

\* the `data` attribute is read: a property, it assigns nothing
AccessData ==
  /\ UNCHANGED <<strsrc, src_short>>
  /\ Returned("data", Out(Cur, FacadeData(Cur)))
  /\ UNCHANGED <<conf, hist>>

\* rewind() called on the window reader itself, over a live source, which
\* cannot rewind (with recording the recorder answers: that is Rewind)
DecoratorRewind ==
  /\ UNCHANGED <<strsrc, src_short>>
  /\ conf.live /\ ~conf.record
  /\ Returned("decorator_rewind", ProxyRewind(Cur))
  /\ UNCHANGED <<conf, hist>>

\* a live source runs out of data for the moment
SourceStall ==
  /\ UNCHANGED <<strsrc, src_short>>
  /\ conf.live /\ src_ready /\ ~read_from_cache
  /\ src_ready' = FALSE
  /\ clean' = FALSE
  /\ wins' = <<>>
  /\ UNCHANGED <<conf, src_open, src_pos, src_read, src_rewound, cache, data, read_from_cache,
                 buf_open, buf_pos, read_samples, blocks, gen_cache, ret,
                 rewinds, first, first_clean, eos_first>>

\* and has data again
SourceFeed ==
  /\ UNCHANGED <<strsrc, src_short>>
  /\ conf.live /\ ~src_ready
  /\ src_ready' = TRUE
  /\ UNCHANGED <<conf, src_open, src_pos, src_read, src_rewound, cache, data, read_from_cache,
                 buf_open, buf_pos, read_samples, blocks, gen_cache, ret, hist>>

\* AudioReader(input, block_dur, hop_dur, record): the call returns or raises
Construct ==
  /\ UNCHANGED <<strsrc, src_short>>
  /\ ret.op = "init"
  /\ ret' = [op |-> "construct", r |-> ReaderInit(conf)]
  /\ conf' = IF ReaderInit(conf) = None THEN Built(conf) ELSE conf
  /\ UNCHANGED <<pipe, hist>>

MakeSelector ==
  /\ UNCHANGED <<strsrc, src_short>>
  /\ ret.op = "init"
  /\ ret' = [op |-> "make_channel_selector",
             r |-> MakeChannelSelector(conf.sw, conf.ch, conf.selected)]
  /\ UNCHANGED <<conf, pipe, hist>>

\* the selector is applied to a block (the averaging selectors are not)
ApplySelector ==
  /\ UNCHANGED <<strsrc, src_short>>
  /\ ret.op = "make_channel_selector"
  /\ ret.r.t = "selector" /\ ret.r.kind \in {"identity", "single", "separate"}
  /\ ret' = [op |-> "select", r |-> Select(ret.r, Block, conf.sw, conf.ch)]
  /\ UNCHANGED <<conf, pipe, hist>>

NextSelector == MakeSelector \/ ApplySelector

MakeValidator ==
  /\ UNCHANGED <<strsrc, src_short>>
  /\ ret.op = "init"
  /\ ret' = [op |-> "validator", r |-> ValidatorInit(conf.sw, conf.ch, conf.selected)]
  /\ UNCHANGED <<conf, pipe, hist>>

CallIsValid ==
  /\ UNCHANGED <<strsrc, src_short>>
  /\ ret.op = "validator" /\ ret.r.t = "validator"
  /\ ret' = [op |-> "is_valid",
             r |-> IsValid(ret.r, Block, conf.sw, conf.ch, conf.threshold)]
  /\ UNCHANGED <<conf, pipe, hist>>

NextValidator == MakeValidator \/ CallIsValid

\* read() of the string source; wins keeps what the reads returned since
\* the data was set
ReadString ==
  /\ Len(wins) < MaxStr + 2
  /\ ret' = [op |-> "read", r |-> StringRead(str_data, str_current).ret]
  /\ str_current' = StringRead(str_data, str_current).current
  /\ wins' = Append(wins, ret'.r)
  /\ UNCHANGED <<conf, pipe, src_short, str_data, rewinds, clean, first, first_clean,
                 eos_first>>

CallSetData ==
  \E x \in DataValues :
    /\ ret' = [op |-> "set_data", r |-> SetData(str_data, str_current, x).ret, arg |-> x]
    /\ str_data' = SetData(str_data, str_current, x).data
    /\ str_current' = SetData(str_data, str_current, x).current
    /\ wins' = IF x.kind = "str" THEN <<>> ELSE wins
    /\ UNCHANGED <<conf, pipe, src_short, rewinds, clean, first, first_clean, eos_first>>

NextString == ReadString \/ CallSetData

Next ==
  \/ Open
  \/ Close
  \/ Read
  \/ Rewind
  \/ RewindNotRecording
  \/ AccessData

\* the source has little to hand out for now, or plenty again
SourceShort ==
  /\ src_short' = ~src_short
  /\ UNCHANGED <<conf, pipe, ret, hist, strsrc>>

NextEndless == Next \/ SourceShort

NextLive ==
  \/ Next
  \/ SourceStall
  \/ SourceFeed
  \/ DecoratorRewind

Spec == Init /\ [][Next]_vars

SpecLive == InitLive /\ [][NextLive]_vars

SpecEndless == InitEndless /\ [][NextEndless]_vars

SpecCtor == InitCtor /\ [][Construct]_vars

SpecSelector == InitSelector /\ [][NextSelector]_vars

SpecValidator == InitValidator /\ [][NextValidator]_vars

SpecString == InitString /\ [][NextString]_vars

\* ================================================================ claims
\* the bytes of the stream the pipeline is reading now: the original
\* source's, or after the first rewind the recorded ones
CurStream == IF read_from_cache THEN data.v ELSE Stream

\* the samples one pass can get from what the window reader wraps
Avail ==
  IF conf.limited THEN Min(Len(CurStream) \div Bps, conf.max_samples)
  ELSE Len(CurStream) \div Bps

\* samples [from, to) of the current stream, as a block
Samples(from, to) == Bytes(PySlice(CurStream, from * Bps, to * Bps))

\* total length in bytes of the blocks among rs
RECURSIVE TotalLen(_)
TotalLen(rs) == IF rs = <<>> THEN 0 ELSE Len(Head(rs).v) + TotalLen(Tail(rs))

\* C1: overlapping reader, 1 <= hop size H < block size B, clean pass over an
\* open source giving full reads: the k-th read() returns samples
\* [k*H, k*H + B) of the stream, for every k whose slice lies inside it.
C1_OverlapWindows ==
  (conf.overlap /\ 1 <= conf.hop_size /\ conf.hop_size < conf.block_size /\ clean)
    => \A k \in 0..(Len(wins) - 1) :
         (k * conf.hop_size + conf.block_size <= Avail)
           => wins[k + 1] = Samples(k * conf.hop_size, k * conf.hop_size + conf.block_size)

C1_Witness ==
  /\ conf.overlap /\ conf.hop_size = 1 /\ conf.block_size = 3 /\ conf.sw = 2
  /\ clean /\ ~read_from_cache /\ Len(wins) = 3
  /\ 2 * conf.hop_size + conf.block_size <= Avail
  /\ wins[3] = Samples(2, 5)

\* C2: fixed-window reader without a limit over a stream of L samples, L a
\* multiple of B, clean pass: the k-th read() returns samples [k*B, (k+1)*B)
\* for k < L/B and end-of-stream for every later k.
C2_FixedWindows ==
  (~conf.overlap /\ ~conf.limited /\ clean /\ (Len(CurStream) \div Bps) % conf.block_size = 0)
    => \A k \in 0..(Len(wins) - 1) :
         wins[k + 1] = IF k < (Len(CurStream) \div Bps) \div conf.block_size
                       THEN Samples(k * conf.block_size, (k + 1) * conf.block_size)
                       ELSE None

C2_Witness ==
  /\ ~conf.overlap /\ ~conf.limited /\ clean /\ ~read_from_cache
  /\ conf.block_size = 2 /\ conf.length = 4 /\ conf.sw = 2
  /\ Len(wins) = 4 /\ wins[2] = Samples(2, 4) /\ wins[3] = None /\ wins[4] = None

\* C3: fixed windows under a limit, source holding more than max_samples
\* samples, clean pass on the original source: when read() returns
\* end-of-stream the blocks returned total max_samples * sw * ch bytes.
C3_LimitTotal ==
  (conf.limited /\ ~conf.overlap /\ clean /\ ~read_from_cache
     /\ conf.length > conf.max_samples /\ ret.op = "read" /\ ret.r = None)
    => TotalLen(wins) = conf.max_samples * conf.sw * conf.ch

C3_Witness ==
  /\ conf.limited /\ ~conf.overlap /\ clean /\ ~read_from_cache
  /\ conf.length > conf.max_samples /\ conf.max_samples = 3 /\ conf.block_size = 2
  /\ conf.sw = 2 /\ ret.op = "read" /\ ret.r = None /\ TotalLen(wins) = 6

\* C4: recording pipeline, clean pass before the first rewind: after any
\* rewind the reads of a clean pass return what the reads before the first
\* rewind returned, in the same order.
C4_ReplayIdentical ==
  (conf.record /\ read_from_cache /\ first_clean /\ clean)
    => \A i \in 1..Min(Len(wins), Len(first)) : wins[i] = first[i]

C4_Witness ==
  /\ conf.record /\ conf.overlap /\ conf.limited /\ rewinds = 2
  /\ first_clean /\ clean /\ Len(first) = 3 /\ Len(wins) = 3
  /\ first[1] = Samples(0, 2) /\ first[2] = Samples(1, 3) /\ first[3] = None
  /\ wins = first

\* C5: after the first rewind `data` is the bytes the original source handed
\* out before it, each once and in order, and no later call changes it.
C5_DataIsWhatWasRead ==
  [][ /\ read_from_cache' => /\ data' = Bytes(SubSeq(Stream, 1, src_pos'))
                             /\ FacadeData(Cur)' = data'
      /\ read_from_cache => data' = data ]_vars

C5_Witness ==
  /\ read_from_cache /\ rewinds = 2 /\ conf.overlap /\ conf.hop_size = 1
  /\ ret.op = "read" /\ ret.r.t = "bytes"
  /\ Len(data.v) = 4 * Bps /\ data = Bytes(SubSeq(Stream, 1, 4 * Bps))

\* C6: recording under a limit: the recorder never holds, and `data` never
\* returns, more than max_samples * sw * ch bytes.
C6_RecordedWithinLimit ==
  (conf.record /\ conf.limited)
    => /\ Len(Join(cache)) <= conf.max_samples * conf.sw * conf.ch
       /\ Len(data.v) <= conf.max_samples * conf.sw * conf.ch
       /\ Len(FacadeData(Cur).v) <= conf.max_samples * conf.sw * conf.ch

C6_Witness ==
  /\ conf.record /\ conf.limited /\ ~read_from_cache
  /\ conf.max_samples = 2 /\ conf.length > 2 /\ conf.block_size = 3
  /\ Len(Join(cache)) = 2 * Bps /\ ret.op = "read" /\ ret.r = None

\* C7: once the recorder replays it replays for good: no call reads the
\* original source or moves it, none appends to the cache, and the replay
\* position stays within the recorded bytes.
C7_ReplayOneWay ==
  [][ read_from_cache => /\ read_from_cache'
                         /\ ~src_read'
                         /\ src_pos' = src_pos
                         /\ cache' = cache
                         /\ buf_pos' <= Len(data'.v) ]_vars

C7_Witness ==
  /\ read_from_cache /\ src_open /\ src_pos < Len(Stream) /\ src_pos > 0
  /\ ret.op = "read" /\ ret.r = None /\ buf_open /\ buf_pos = Len(data.v)

\* C8: overlapping reader: when the first wrapped read of a pass returned
\* end-of-stream, every read() of that pass returns end-of-stream.
C8_FirstEosStaysEos ==
  (conf.overlap /\ eos_first /\ ret.op = "read") => ret.r = None

\* C9: overlapping reader: once a read() after the first window returned
\* end-of-stream, every following read() on the open source returns
\* end-of-stream until a rewind, whatever the source has by then.
C9_NoResume ==
  [][ (conf.overlap /\ blocks = "exhausted" /\ src_pos > 0 /\ IsOpen(Cur)
         /\ ret'.op = "read")
        => ret'.r = None ]_vars

\* a wrapped read of this pass raised: that is what ended the generator
\* (the other way it ends is the TypeError that follows a first end-of-stream)
WrappedReadRaised == conf.overlap /\ blocks = "finished" /\ ~eos_first

\* C10: overlapping reader: in a pass where a wrapped read has raised, the
\* read() that met the failure raises and no later read() returns the absent
\* value in its place.
C10_FailureNotEos ==
  (WrappedReadRaised /\ ret.op = "read") => ret.r # None

\* samples of the current stream the pipeline has taken so far
Consumed == (IF read_from_cache THEN buf_pos ELSE src_pos) \div Bps

\* C11 (as stated): every block read() returns holds exactly block_size
\* samples; when fewer remain read() returns the absent value.
C11_FullBlocksOnly ==
  (ret.op = "read" /\ ret.r.t = "bytes")
    => Len(ret.r.v) = conf.block_size * Bps

\* C11 (amended): every block read() returns holds whole samples, at least
\* one and at most block_size; a block of fewer than block_size samples is
\* returned, instead of the absent value, only when the stream or the limit
\* ended inside it, and then nothing is left to read.
C11_ShortOnlyAtEnd ==
  (ret.op = "read" /\ ret.r.t = "bytes")
    => /\ Len(ret.r.v) % Bps = 0
       /\ 1 <= Len(ret.r.v) \div Bps
       /\ Len(ret.r.v) \div Bps <= conf.block_size
       /\ (Len(ret.r.v) \div Bps < conf.block_size) => Consumed = Avail

C11_Witness ==
  /\ conf.limited /\ conf.max_samples = 3 /\ conf.length > 3 /\ conf.block_size = 2
  /\ clean /\ Len(wins) = 2 /\ ret.op = "read"
  /\ ret.r = Samples(2, 3)

\* what the first read() of a pass over the open current stream returns
FirstWindow == IF Avail = 0 THEN None ELSE Samples(0, Min(conf.block_size, Avail))

\* C12: overlapping reader of a recording pipeline: whatever state rewind()
\* is called in, it leaves the reader not started with an empty carry, and
\* the first read() of the open stream after it returns the first block_size
\* samples of the stream (all of it when it is shorter), none carried over.
C12_RewindRestarts ==
  [][ (conf.overlap /\ conf.record)
        => /\ (ret'.op = "rewind") => (blocks' = "notStarted" /\ gen_cache' = <<>>)
           /\ (read_from_cache /\ blocks = "notStarted" /\ IsOpen(Cur) /\ ret'.op = "read")
                => ret'.r = FirstWindow ]_vars

C12_Witness ==
  /\ conf.overlap /\ conf.hop_size = 1 /\ conf.block_size = 3
  /\ rewinds = 1 /\ first_clean /\ Len(first) = 2 /\ first[2] = Samples(1, 4)
  /\ clean /\ Len(wins) = 1 /\ ret.op = "read" /\ wins[1] = Samples(0, 3)

\* C13: overlapping reader that has not started, over a source that is not
\* open: read() raises the source-not-open error, reads nothing from what it
\* wraps and stays not started; once the source is open the next read()
\* returns the first window.
C13_NotOpenRaises ==
  [][ (conf.overlap /\ blocks = "notStarted" /\ ret'.op = "read")
        => IF ~IsOpen(Cur)
           THEN /\ ret'.r = Raise("AudioIOError")
                /\ ~src_read'
                /\ blocks' = "notStarted" /\ gen_cache' = gen_cache
                /\ src_pos' = src_pos /\ buf_pos' = buf_pos
                /\ read_samples' = read_samples /\ cache' = cache
           ELSE ret'.r = FirstWindow ]_vars

C13_Witness ==
  /\ conf.overlap /\ blocks = "notStarted" /\ ~IsOpen(Cur)
  /\ ret.op = "read" /\ ret.r = Raise("AudioIOError")

\* the fields of the pipeline a call can move (src_read only tells what the
\* last call did)
Position == <<src_open, src_pos, src_ready, cache, data, read_from_cache,
              buf_open, buf_pos, read_samples, blocks, gen_cache>>

\* C14: recording pipeline: before the first rewind every access to `data`
\* raises RuntimeError, whatever was read so far, and after it none raises;
\* an access, failed or not, leaves the cache, the mode and every position
\* as they were, so later reads return what they would have returned.
C14_DataBeforeRewind ==
  [][ (conf.record /\ ret'.op = "data")
        => /\ IF read_from_cache THEN ret'.r.t = "bytes"
              ELSE ret'.r = Raise("RuntimeError")
           /\ Position' = Position
           /\ wins' = wins /\ clean' = clean ]_vars

C14_Witness ==
  /\ conf.record /\ ~read_from_cache /\ Len(cache) = 2 /\ Len(wins) = 2
  /\ ret.op = "data" /\ ret.r = Raise("RuntimeError")

\* C15: facade built without recording: every access to `data` and every
\* call of rewind() raises AttributeError, in every state, over a source
\* that could itself be rewound too, and leaves every position and counter
\* as it was; built with recording, neither raises AttributeError.
C15_NoRecordingNoRewind ==
  [][ (ret'.op \in {"data", "rewind"})
        => IF conf.record THEN ret'.r # Raise("AttributeError")
           ELSE ret'.r = Raise("AttributeError") /\ Position' = Position ]_vars

C15_Witness ==
  /\ ~conf.record /\ conf.overlap /\ blocks = "exhausted" /\ src_pos = Len(Stream)
  /\ src_pos > 0 /\ ret.op = "rewind" /\ ret.r = Raise("AttributeError")

\* floor(dur * sr) for a duration of q quarter seconds
FloorOfDur(q, sr) == (q * sr) \div 4

\* C16 (as stated): construction raises TooSamllBlockDuration exactly when
\* floor(block_dur * sr) = 0, whatever block_dur, sr and hop_dur are.
C16_TooSmallIffFloorZero ==
  (ret.op = "construct")
    => ((ret.r = Raise("TooSamllBlockDuration")) <=> (FloorOfDur(conf.bq, conf.sr) = 0))

\* C16 (amended): construction raises TooSamllBlockDuration exactly when
\* block_dur > 0, floor(block_dur * sr) = 0 and, with a hop, hop_dur <
\* block_dur; it raises ValueError exactly when block_dur <= 0 or, with a
\* hop, hop_dur >= block_dur.
C16_TooSmallAmongAccepted ==
  (ret.op = "construct")
    => /\ (ret.r = Raise("TooSamllBlockDuration"))
            <=> /\ conf.bq > 0
                /\ FloorOfDur(conf.bq, conf.sr) = 0
                /\ conf.has_hop => conf.hq < conf.bq
       /\ (ret.r = Raise("ValueError"))
            <=> (conf.bq <= 0 \/ (conf.has_hop /\ conf.hq >= conf.bq))

C16_Witness ==
  /\ ret.op = "construct" /\ ret.r = Raise("TooSamllBlockDuration")
  /\ conf.has_hop /\ conf.hq < conf.bq /\ conf.bq = 1 /\ conf.sr = 2

\* C17: an overlapping reader given hop_dur <= 0 is refused at construction
\* (with ValueError, says the claim; any error raised there is let pass
\* here), so none is ever built.
C17_NonPositiveHopRejected ==
  (ret.op = "construct" /\ conf.has_hop /\ conf.hq <= 0)
    => IsRaise(ret.r)

\* C18: rewind() of a limiting or window decorator over a source that
\* cannot rewind raises AudioIOError without calling the source's rewind(),
\* and leaves the limiter's counter and the window state as they were.
C18_NotRewindableUntouched ==
  [][ (ret'.op = "decorator_rewind")
        => /\ ret'.r = Raise("AudioIOError")
           /\ ~src_rewound'
           /\ Position' = Position ]_vars

\* the configuration the claim calls malformed
Malformed ==
  \/ conf.sw \notin {1, 2, 4}
  \/ conf.selected.kind = "int"
       /\ (conf.selected.i < -conf.ch \/ conf.selected.i >= conf.ch)
  \/ conf.selected.kind = "other"

\* C19 (as stated): for every channel count >= 1, make_channel_selector
\* raises ValueError for a sample width outside {1,2,4}, an integer index
\* outside [-channels, channels) and a mode that is none of the known ones.
C19_MalformedRejected ==
  (ret.op = "make_channel_selector" /\ Malformed) => ret.r = Raise("ValueError")

\* C19 (amended): make_channel_selector raises ValueError exactly for a
\* sample width outside {1,2,4}, at every channel count, and, for two or
\* more channels, for an integer index outside [-channels, channels) and for
\* a mode that is none of the known ones; with one channel and a valid width
\* it returns the identity whatever `selected` is.
C19_MalformedRejectedFromTwo ==
  (ret.op = "make_channel_selector")
    => /\ (ret.r = Raise("ValueError"))
            <=> (conf.sw \notin {1, 2, 4} \/ (conf.ch >= 2 /\ Malformed))
       /\ (conf.ch = 1 /\ conf.sw \in {1, 2, 4}) => ret.r = Selector("identity", 0)

C19_Witness ==
  /\ ret.op = "make_channel_selector" /\ ret.r = Raise("ValueError")
  /\ conf.sw = 2 /\ conf.ch = 3 /\ conf.selected = Index(-4)

\* the samples of the block at the positions j, j + 1, ... (from 0) whose
\* rest modulo the channel count is c, in the block's order
RECURSIVE SamplesOfChannel(_, _)
SamplesOfChannel(j, c) ==
  IF j >= Len(Block) \div conf.sw THEN <<>>
  ELSE (IF j % conf.ch = c THEN <<Sample(Block, conf.sw, j)>> ELSE <<>>)
         \o SamplesOfChannel(j + 1, c)

\* C20: two or more channels and an index i with -channels <= i < 0: the
\* selector made for i is the one made for i + channels, and applied to a
\* block of k frames it returns the k samples at the interleaved positions
\* j with j mod channels = i + channels, in their order.
C20_NegativeIndex ==
  (conf.ch >= 2 /\ conf.sw \in {1, 2, 4} /\ conf.selected.kind = "int"
     /\ -conf.ch <= conf.selected.i /\ conf.selected.i < 0)
    => /\ (ret.op = "make_channel_selector")
            => /\ ret.r = MakeChannelSelector(conf.sw, conf.ch,
                                              Index(conf.selected.i + conf.ch))
               /\ ret.r.t = "selector"
       /\ (ret.op = "select")
            => /\ ret.r = SamplesOfChannel(0, conf.selected.i + conf.ch)
               /\ Len(ret.r) = conf.frames

C20_Witness ==
  /\ conf.ch = 4 /\ conf.sw = 2 /\ conf.selected = Index(-1) /\ conf.frames = 2
  /\ ret.op = "select" /\ ret.r = << <<7, 8>>, <<15, 16>> >>

\* C21: one channel and a valid sample width: whatever `selected` is, an
\* index in or out of range, a known mode or anything else, the selector
\* returned is the identity and selector(block) is the block, byte for byte.
C21_OneChannelIdentity ==
  (conf.ch = 1 /\ conf.sw \in {1, 2, 4})
    => /\ (ret.op = "make_channel_selector") => ret.r = Selector("identity", 0)
       /\ (ret.op = "select") => ret.r = Block

C21_Witness ==
  /\ conf.ch = 1 /\ conf.sw = 2 /\ conf.selected = Mode("other") /\ conf.frames = 2
  /\ ret.op = "select" /\ ret.r = <<1, 2, 3, 4>>

\* the score of channel c of the block
ChannelScore(c) ==
  SumOfSquares(SamplesOfChannel(0, c)) \div Len(SamplesOfChannel(0, c))

\* the score the claim gives the block: the highest score among its
\* channels when there are several and use_channel is None or "any", else
\* the score of the only channel, of the selected one or of the mean
ClaimedScore ==
  IF conf.ch > 1 /\ conf.selected.kind \in {"None", "any"}
  THEN CHOOSE e \in { ChannelScore(c) : c \in 0..(conf.ch - 1) } :
         \A c \in 0..(conf.ch - 1) : ChannelScore(c) <= e
  ELSE IF conf.ch = 1 THEN ChannelScore(0)
  ELSE IF conf.selected.kind = "int"
       THEN ChannelScore(conf.selected.i % conf.ch)
  ELSE CalculateEnergySingleChannel(ComputeAverageChannel(Block, conf.sw, conf.ch))

\* C22: is_valid(block) is true exactly when the block's score is at least
\* the threshold, the score being the multichannel one iff there are several
\* channels and use_channel is None or "any", and the score of the only,
\* the selected or the mixed channel otherwise.
C22_ValidIffScoreReachesThreshold ==
  (ret.op = "is_valid") => (ret.r <=> (ClaimedScore >= conf.threshold))

C22_Witness ==
  /\ ret.op = "is_valid" /\ ret.r = TRUE
  /\ conf.ch = 3 /\ conf.sw = 2 /\ conf.selected = Mode("any") /\ conf.frames = 2
  /\ conf.threshold = ChannelScore(2) /\ ChannelScore(1) < conf.threshold

\* C23: StringDataSource: the reads made since the data was set return its
\* characters one by one, in order, and then None at every call; the
\* position stays between 0 and the length of the data; set_data with a str
\* installs it and restarts at its first character; set_data with
\* anything else raises ValueError and leaves data and position as they were.
C23_StringSource ==
  [][ /\ 0 <= str_current' /\ str_current' <= Len(str_data')
      /\ \A k \in 1..Len(wins') :
           wins'[k] = IF k <= Len(str_data') THEN Char(str_data'[k]) ELSE None
      /\ (ret'.op = "set_data")
           => IF ret'.arg.kind = "str"
              THEN ret'.r = None /\ str_data' = ret'.arg.s /\ str_current' = 0
              ELSE /\ ret'.r = Raise("ValueError")
                   /\ str_data' = str_data /\ str_current' = str_current ]_vars

C23_Witness ==
  /\ str_data = <<"a", "b">> /\ conf.data = <<"b">> /\ str_current = 2
  /\ wins = <<Char("a"), Char("b"), None, None>> /\ ret.op = "read"

\* the samples of block r that the reader took from what it wraps in the
\* read() that returned r: all of them, less the carry an overlapping
\* reader put in front
TakenFor(r) ==
  IF r.t # "bytes" THEN 0
  ELSE IF conf.overlap /\ blocks \in {"running", "exhausted"}
       THEN (Len(r.v) - Len(gen_cache)) \div Bps
  ELSE Len(r.v) \div Bps

\* C24: limiter: the counter of samples read stays between 0 and
\* max_samples; a read() adds to it exactly the samples the limiter handed
\* out, which are those taken from the source, and nothing when it handed
\* out end-of-stream or raised; a rewind() that succeeds sets it to 0 and
\* no other call changes it.
C24_CounterFollowsReads ==
  [][ conf.limited
        => /\ 0 <= read_samples' /\ read_samples' <= conf.max_samples
           /\ (ret'.op = "read")
                => /\ read_samples' = read_samples + TakenFor(ret'.r)
                   /\ read_samples' - read_samples = Consumed' - Consumed
           /\ (ret'.op = "rewind" /\ ~IsRaise(ret'.r)) => read_samples' = 0
           /\ (ret'.op # "read" /\ (ret'.op # "rewind" \/ IsRaise(ret'.r)))
                => read_samples' = read_samples ]_vars

C24_Witness ==
  /\ conf.limited /\ conf.overlap /\ conf.hop_size = 1 /\ conf.block_size = 2
  /\ conf.sw = 2 /\ conf.max_samples = 3 /\ conf.length > 3
  /\ ret.op = "read" /\ ret.r = Samples(1, 3) /\ read_samples = 3

\* C25: limiter at its cap (the counter has reached max_samples): read(n)
\* returns end-of-stream for every n without a call to what it wraps, so
\* that neither source moves and the recorder's cache and the counter stay
\* as they are; the cap is left only by a rewind, and until then a
\* fixed-window read() returns end-of-stream.
C25_AtCapNothingRead ==
  [][ (conf.limited /\ read_samples >= conf.max_samples)
        => /\ \A n \in 1..MaxLen : LimiterRead(Cur, n) = Out(Cur, None)
           /\ (ret'.op = "read")
                => /\ ~src_read'
                   /\ src_pos' = src_pos /\ buf_pos' = buf_pos
                   /\ cache' = cache /\ read_samples' = read_samples
                   /\ ~conf.overlap => ret'.r = None
           /\ (ret'.op # "rewind") => read_samples' >= conf.max_samples ]_vars

C25_Witness ==
  /\ conf.limited /\ conf.record /\ ~conf.overlap /\ ~read_from_cache
  /\ conf.max_samples = 2 /\ conf.length > 2 /\ conf.block_size = 2
  /\ read_samples = 2 /\ Len(wins) = 3 /\ wins[2] = None
  /\ ret.op = "read" /\ ret.r = None /\ Len(Join(cache)) = 2 * Bps

\* the last n bytes of b
LastBytes(b, n) == SubSeq(b, Len(b) - n + 1, Len(b))

\* C26 (as stated): overlapping reader: after every read() that returned a
\* window the carry is the trailing block_size - hop_size samples of that
\* window, also when the window is short.
C26_CarryIsTrailing ==
  (conf.overlap /\ ret.op = "read" /\ ret.r.t = "bytes")
    => /\ Len(gen_cache) = (conf.block_size - conf.hop_size) * Bps
       /\ gen_cache = LastBytes(ret.r.v, (conf.block_size - conf.hop_size) * Bps)

\* C26 (amended): overlapping reader: after every read() that returned a
\* window the carry is that window without its first hop_size samples: the
\* trailing block_size - hop_size samples of a window of block_size samples,
\* and n - hop_size samples (none when n <= hop_size) of a short window of n.
C26_CarryIsWindowLessHop ==
  (conf.overlap /\ ret.op = "read" /\ ret.r.t = "bytes")
    => /\ gen_cache = PySlice(ret.r.v, conf.hop_size * Bps, Len(ret.r.v))
       /\ (Len(ret.r.v) = conf.block_size * Bps)
            => /\ Len(gen_cache) = (conf.block_size - conf.hop_size) * Bps
               /\ gen_cache = LastBytes(ret.r.v, (conf.block_size - conf.hop_size) * Bps)
       /\ (Len(ret.r.v) < conf.block_size * Bps)
            => Len(gen_cache) =
                 IF Len(ret.r.v) <= conf.hop_size * Bps THEN 0
                 ELSE Len(ret.r.v) - conf.hop_size * Bps

C26_Witness ==
  /\ conf.overlap /\ conf.block_size = 3 /\ conf.hop_size = 2 /\ conf.sw = 2
  /\ conf.length = 4 /\ ~conf.limited /\ clean /\ Len(wins) = 2
  /\ ret.op = "read" /\ ret.r = Samples(2, 4) /\ gen_cache = <<>>

\* the blocks among results rs
RECURSIVE NonAbsent(_)
NonAbsent(rs) ==
  IF rs = <<>> THEN 0
  ELSE (IF Head(rs).t = "bytes" THEN 1 ELSE 0) + NonAbsent(Tail(rs))

\* C27: limit set, source that does not end and hands out at least one
\* sample at every read, fixed windows or overlapping ones with a hop of one
\* sample or more: the reads of a pass return at most max_samples blocks,
\* and as long as they returned blocks only, the next read() of the open
\* pipeline does not raise: it returns a block or end-of-stream. So
\* end-of-stream is returned after max_samples blocks at the latest.
C27_EndsWithinLimit ==
  [][ (conf.limited /\ (conf.overlap => conf.hop_size >= 1)
         /\ ret'.op = "read" /\ src_short' = src_short)
        => /\ clean' => NonAbsent(wins') <= conf.max_samples
           /\ (clean /\ IsOpen(Cur) /\ NonAbsent(wins) = Len(wins))
                => /\ ~IsRaise(ret'.r)
                   /\ (ret'.r.t = "bytes") => read_samples' > read_samples ]_vars

C27_Witness ==
  /\ conf.limited /\ conf.overlap /\ conf.hop_size = 1 /\ conf.block_size = 2
  /\ conf.max_samples = 3 /\ clean /\ ~read_from_cache /\ Len(wins) = 4
  /\ NonAbsent(wins) = 3 /\ wins[1] = Samples(0, 1) /\ wins[4] = None
  /\ ret.op = "read"


\* ---------------------------------------------------------------------
\* C28: in a recording pipeline with a limit, until the first rewind, the
\* samples held by the recorder's cache are as many as the limiter's
\* _read_samples, after any sequence of calls, reads that return
\* end-of-stream included
CachedSamples == Len(Join(cache)) \div Bps

C28_CacheMatchesCounter ==
  (conf.record /\ conf.limited /\ ~read_from_cache)
    => CachedSamples = read_samples

C28_Witness ==
  /\ conf.record /\ conf.limited /\ ~read_from_cache
  /\ Len(cache) >= 2 /\ read_samples >= 3 /\ CachedSamples = read_samples
  /\ ret.op = "read" /\ ret.r = None


\* ---------------------------------------------------------------------
\* C29: from the recorder's first rewind() on, no call on the pipeline
\* reaches the original source: it is not opened, closed, read or rewound,
\* its position stays, and it keeps the open/closed status it had when
\* rewind() was called; open() and close() act on the replay source
C29_OriginalLeftAlone ==
  [][ read_from_cache'
        => /\ src_open' = src_open
           /\ src_pos' = src_pos
           /\ ~src_read' /\ ~src_rewound'
           /\ (read_from_cache /\ ret'.op = "open") => buf_open'
           /\ (read_from_cache /\ ret'.op = "close") => ~buf_open' ]_vars

C29_Witness ==
  /\ read_from_cache /\ rewinds >= 1
  /\ src_open /\ src_pos >= 1 /\ ~buf_open
  /\ ret.op = "close"


\* ---------------------------------------------------------------------
\* C30: the recorder's first rewind() leaves the pipeline open, whether the
\* pipeline was open, closed or never opened when it was called, and the
\* read() that follows it returns the recorded bytes from their start: the
\* first block_size samples of them, all of them when they are fewer,
\* end-of-stream when nothing was recorded
Recorded == Join(cache)

FirstRecorded(d) ==
  IF d = <<>> THEN None ELSE Bytes(PySlice(d, 0, conf.block_size * Bps))

C30_FirstRewindOpens ==
  [][ conf.record
        => /\ (~read_from_cache /\ ret'.op = "rewind")
                => /\ read_from_cache' /\ buf_open' /\ buf_pos' = 0
                   /\ data' = Bytes(Recorded)
                   /\ ret'.r = None
           /\ (rewinds = 1 /\ ret.op = "rewind" /\ ret'.op = "read")
                => ret'.r = FirstRecorded(data.v) ]_vars

C30_Witness ==
  /\ conf.record /\ read_from_cache /\ rewinds = 1
  /\ ~src_open /\ buf_open
  /\ first_clean = FALSE /\ Len(data.v) > conf.block_size * Bps
  /\ clean /\ ret.op = "read" /\ wins = <<FirstRecorded(data.v)>>

====
